---- MODULE Spec2Model ----
(***************************************************************************)
(* Model of the D300 LiDAR frame decoder (src/src/lidar.rs): read_frame,   *)
(* and the three sequences built on it (as_frame_stream,                   *)
(* as_scan_line_stream, frame_in).                                         *)
(*                                                                         *)
(* f64 values are modelled as exact rationals n/d in lowest terms plus the *)
(* IEEE special values inf and NaN; binary rounding is not modelled.       *)
(* u8 arithmetic keeps its width: len - 1 is computed modulo 2^8, or       *)
(* panics when the build has overflow checks (the debug profile).          *)
(***************************************************************************)
EXTENDS Integers, Sequences, FiniteSets, TLC

----------------------------------------------------------------------------
(* Bounds of the explored inputs *)

MaxLen == 2
MaxPrefix == 2
MaxFrames == 4
MaxRotations == 2

----------------------------------------------------------------------------
(* f64 arithmetic: rationals in lowest terms, inf, NaN *)

RECURSIVE GCD(_, _)
GCD(a, b) == IF b = 0 THEN a ELSE GCD(b, a % b)

Abs(x) == IF x < 0 THEN -x ELSE x

Fin(n, d) ==
    LET g == GCD(Abs(n), Abs(d))
        s == IF d < 0 THEN -1 ELSE 1
    IN  [k |-> "fin", n |-> (s * n) \div g, d |-> (s * d) \div g]

NaN == [k |-> "nan", n |-> 0, d |-> 0]

Inf(s) == [k |-> "inf", n |-> s, d |-> 0]

Sign(x) == IF x.n > 0 THEN 1 ELSE IF x.n < 0 THEN -1 ELSE 0

FNeg(a) == IF a.k = "nan" THEN NaN ELSE [a EXCEPT !.n = -a.n]

FAdd(a, b) ==
    IF a.k = "nan" \/ b.k = "nan" THEN NaN
    ELSE IF a.k = "inf" /\ b.k = "inf" THEN (IF a.n = b.n THEN a ELSE NaN)
    ELSE IF a.k = "inf" THEN a
    ELSE IF b.k = "inf" THEN b
    ELSE Fin(a.n * b.d + b.n * a.d, a.d * b.d)

FSub(a, b) == FAdd(a, FNeg(b))

FMul(a, b) ==
    IF a.k = "nan" \/ b.k = "nan" THEN NaN
    ELSE IF a.k = "inf" \/ b.k = "inf"
         THEN (IF Sign(a) * Sign(b) = 0 THEN NaN ELSE Inf(Sign(a) * Sign(b)))
    ELSE Fin(a.n * b.n, a.d * b.d)

FDiv(a, b) ==
    IF a.k = "nan" \/ b.k = "nan" THEN NaN
    ELSE IF a.k = "inf" /\ b.k = "inf" THEN NaN
    ELSE IF a.k = "inf" THEN (IF Sign(b) < 0 THEN FNeg(a) ELSE a)
    ELSE IF b.k = "inf" THEN Fin(0, 1)
    ELSE IF b.n = 0 THEN (IF a.n = 0 THEN NaN ELSE Inf(Sign(a)))
    ELSE Fin(a.n * b.d, a.d * b.n)

FLe(a, b) ==
    IF a.k = "nan" \/ b.k = "nan" THEN FALSE
    ELSE IF a.k = "inf" /\ b.k = "inf" THEN a.n <= b.n
    ELSE IF a.k = "inf" THEN a.n < 0
    ELSE IF b.k = "inf" THEN b.n > 0
    ELSE a.n * b.d <= b.n * a.d

FGe(a, b) == FLe(b, a)

FromInt(i) == Fin(i, 1)

----------------------------------------------------------------------------
(* The wire: bytes a sensor sends for a frame (the inputs of the decoder) *)

EXPECTED_HEADER == 84

LE16(v) == <<v % 256, v \div 256>>

RECURSIVE Flatten(_)
Flatten(ss) == IF ss = <<>> THEN <<>> ELSE Head(ss) \o Flatten(Tail(ss))

WirePoint(p) == LE16(p[1]) \o <<p[2]>>

WireFrame(f) ==
    <<EXPECTED_HEADER, f.info>> \o LE16(f.speed) \o LE16(f.start_raw)
        \o Flatten([i \in 1..Len(f.pts) |-> WirePoint(f.pts[i])])
        \o LE16(f.end_raw) \o LE16(f.ts) \o <<f.crc>>

WireStream(fs) == Flatten([i \in 1..Len(fs) |-> WireFrame(fs[i])])

Drop(s, n) == SubSeq(s, n + 1, Len(s))

(* measured points <<distance, intensity>>; the second carries 0x54 bytes *)
Points == <<(<<2803, 200>>), (<<596, 84>>), (<<65535, 255>>)>>

PointsOf(l) == [i \in 1..l |-> Points[((i - 1) % Len(Points)) + 1]]

Angles == {10, 18000, 35000}

Types == {0, 1, 7}

Lens == 0..MaxLen

SentFrame(t, l, s, e, ts, crc) ==
    [info |-> t * 32 + l, speed |-> 3600, start_raw |-> s, end_raw |-> e,
     pts |-> PointsOf(l), ts |-> ts, crc |-> crc]

RichFrames ==
    {SentFrame(t, l, s, e, 1000, 167) : t \in Types, l \in Lens, s \in Angles, e \in Angles}
        \cup {SentFrame(7, 31, 10, 35000, 65535, 255),
              SentFrame(1, 2, 35000, 1000, 1000, 167),
              SentFrame(1, 2, 40000, 1000, 1000, 167),
              SentFrame(1, 3, 35000, 1000, 1000, 167)}

(* frames of a running sensor: sweeps of 170 and 190 degrees *)
StreamFrames ==
    {SentFrame(1, 2, 18000, 35000, 340, 9), SentFrame(1, 1, 35000, 18000, 1000, 167)}

Garbage == {0, 85}

Prefixes == UNION {[1..n -> Garbage] : n \in 0..MaxPrefix}

Modes == {"read_frame", "as_frame_stream", "as_scan_line_stream", "frame_in"}

----------------------------------------------------------------------------
(* State *)

VARIABLES
    input,            \* the bytes the transport holds (BufReader<R>)
    pos,              \* number of bytes read from the transport so far
    overflow_checks,  \* build profile: TRUE = arithmetic overflow panics
    pc,               \* position of the read_frame call in progress
    rf,               \* locals of the read_frame call in progress
    result,           \* Result<Frame, Error> of the last read_frame call
    mode,             \* which operation the consumer drives
    rotations,        \* argument of frame_in
    pull,             \* TRUE while the consumer awaits the next item
    status,           \* "open", "ended" or "panicked"
    out,              \* items handed to the consumer so far
    inner,            \* flat_map: points of the current frame not yet yielded
    line_buffer,      \* frame_in: captured line_buffer
    covered_angle,    \* frame_in: captured covered_angle
    seen,             \* frames yielded by the frame stream so far
    io_error,         \* TRUE once a read failed although bytes remained
    sent,             \* the frames the sensor sent
    prefix,           \* bytes in front of the first sent frame
    cut               \* leading bytes of the first sent frame that are missing

vars == <<input, pos, overflow_checks, pc, rf, result, mode, rotations, pull,
          status, out, inner, line_buffer, covered_angle, seen, io_error,
          sent, prefix, cut>>

decoder == <<pos, pc, rf, result, io_error>>
setup == <<input, overflow_checks, mode, rotations, sent, prefix, cut>>
aggregator == <<line_buffer, covered_angle>>

NoFrame ==
    [header |-> 0, message_type |-> 0, len |-> 0, speed |-> 0,
     start_angle |-> FromInt(0), data |-> <<>>, end_angle |-> FromInt(0),
     ts |-> 0, crc |-> 0]

NoLocals ==
    [header |-> 0, message_type |-> 0, len |-> 0, speed |-> 0,
     start_angle |-> FromInt(0), line_buffer |-> <<>>,
     end_angle |-> FromInt(0), data |-> <<>>, ts |-> 0]

NoResult == [kind |-> "None", frame |-> NoFrame]

Init ==
    /\ \/ /\ sent \in {<<f>> : f \in RichFrames}
          /\ prefix \in Prefixes
          /\ cut = 0
       \/ /\ sent \in UNION {[1..n -> StreamFrames] : n \in 0..MaxFrames}
          /\ prefix = <<>>
          /\ cut \in (IF sent = <<>> THEN {0} ELSE 0..(Len(WireFrame(sent[1])) - 1))
    /\ input = prefix \o Drop(WireStream(sent), cut)
    /\ pos = 0
    /\ overflow_checks \in BOOLEAN
    /\ mode \in Modes
    /\ rotations \in (IF mode = "frame_in" THEN 1..MaxRotations ELSE {1})
    /\ pc = "idle"
    /\ rf = NoLocals
    /\ result = NoResult
    /\ pull = FALSE
    /\ status = "open"
    /\ out = <<>>
    /\ inner = <<>>
    /\ line_buffer = <<>>
    /\ covered_angle = FromInt(0)
    /\ seen = <<>>
    /\ io_error = FALSE

----------------------------------------------------------------------------
(* Transport reads (tokio AsyncReadExt on the BufReader) *)

Available(n) == pos + n <= Len(input)

read_u8 == input[pos + 1]

read_u16_le == input[pos + 1] + 256 * input[pos + 2]

(* bytes the read at each position of read_frame asks for *)
Need(p) ==
    CASE p = "header" -> 1
      [] p = "info" -> 1
      [] p = "speed" -> 2
      [] p = "start_angle" -> 2
      [] p = "points" -> 3
      [] p = "end_angle" -> 2
      [] p = "ts" -> 2
      [] p = "crc" -> 1
      [] OTHER -> 0

ReadPcs == {"header", "info", "speed", "start_angle", "points", "end_angle", "ts", "crc"}

----------------------------------------------------------------------------
(* read_frame *)

PollsFrameStreamAlways(m, held) == TRUE

(* flat_map polls the frame stream only when its inner stream is exhausted *)
PollsFrameStream(m, held) == ~(m = "as_scan_line_stream" /\ held # <<>>)

(* the consumer asks for the next item; unless flat_map still holds points *)
(* of the current frame, this starts a read_frame call                     *)
Pull ==
    /\ status = "open"
    /\ ~pull
    /\ pc = "idle"
    /\ pull' = TRUE
    /\ IF PollsFrameStream(mode, inner)
       THEN pc' = "header" /\ rf' = NoLocals /\ result' = NoResult
       ELSE UNCHANGED <<pc, rf, result>>
    /\ UNCHANGED <<setup, pos, io_error, status, out, inner, aggregator, seen>>

HeaderFoundAtLeast(header) == header >= EXPECTED_HEADER

HeaderFoundAny(header) == TRUE

HeaderFound(header) == header = EXPECTED_HEADER

ReadHeader ==
    /\ pc = "header"
    /\ Available(1)
    /\ pos' = pos + 1
    /\ IF HeaderFound(read_u8)
       THEN rf' = [NoLocals EXCEPT !.header = read_u8] /\ pc' = "info"
       ELSE rf' = NoLocals /\ pc' = "header"
    /\ UNCHANGED <<setup, result, io_error, pull, status, out, inner, aggregator, seen>>

MessageTypeShift4(msg_info) == msg_info \div 16

MessageType(msg_info) == msg_info \div 32

FrameLen(msg_info) == msg_info % 32

ReadInfo ==
    /\ pc = "info"
    /\ Available(1)
    /\ pos' = pos + 1
    /\ rf' = [rf EXCEPT !.message_type = MessageType(read_u8), !.len = FrameLen(read_u8)]
    /\ pc' = "speed"
    /\ UNCHANGED <<setup, result, io_error, pull, status, out, inner, aggregator, seen>>

ReadSpeed ==
    /\ pc = "speed"
    /\ Available(2)
    /\ pos' = pos + 2
    /\ rf' = [rf EXCEPT !.speed = read_u16_le]
    /\ pc' = "start_angle"
    /\ UNCHANGED <<setup, result, io_error, pull, status, out, inner, aggregator, seen>>

ReadStartAngle ==
    /\ pc = "start_angle"
    /\ Available(2)
    /\ pos' = pos + 2
    /\ rf' = [rf EXCEPT !.start_angle = FDiv(FromInt(read_u16_le), FromInt(100))]
    /\ pc' = IF rf.len = 0 THEN "end_angle" ELSE "points"
    /\ UNCHANGED <<setup, result, io_error, pull, status, out, inner, aggregator, seen>>

ReadPoint ==
    /\ pc = "points"
    /\ Available(3)
    /\ pos' = pos + 3
    /\ rf' = [rf EXCEPT !.line_buffer =
                 Append(@, [distance |-> read_u16_le, intensity |-> input[pos + 3]])]
    /\ pc' = IF Len(rf.line_buffer) + 1 < rf.len THEN "points" ELSE "end_angle"
    /\ UNCHANGED <<setup, result, io_error, pull, status, out, inner, aggregator, seen>>

ReadEndAngle ==
    /\ pc = "end_angle"
    /\ Available(2)
    /\ pos' = pos + 2
    /\ rf' = [rf EXCEPT !.end_angle = FDiv(FromInt(read_u16_le), FromInt(100))]
    /\ pc' = "interpolate"
    /\ UNCHANGED <<setup, result, io_error, pull, status, out, inner, aggregator, seen>>

AngleIncrementByLen(start_angle, end_angle, len) ==
    FDiv(FSub(end_angle, start_angle), FromInt(len))

(* (end_angle - start_angle) / (len - 1) as f64, len - 1 computed in u8 *)
AngleIncrement(start_angle, end_angle, len) ==
    FDiv(FSub(end_angle, start_angle), FromInt((len + 255) % 256))

InterpolatedAngle(start_angle, angle_increment, i) ==
    FAdd(start_angle, FMul(angle_increment, FromInt(i)))

AngledData(start_angle, end_angle, len, lines) ==
    [j \in 1..Len(lines) |->
        [distance |-> lines[j].distance,
         angle |-> InterpolatedAngle(start_angle,
                                     AngleIncrement(start_angle, end_angle, len), j - 1),
         intensity |-> lines[j].intensity]]

(* len - 1 on a u8 panics for len = 0 when the build checks overflow *)
SubOverflows(len) == len = 0

Interpolate ==
    /\ pc = "interpolate"
    /\ IF SubOverflows(rf.len) /\ overflow_checks
       THEN /\ pc' = "panic"
            /\ status' = "panicked"
            /\ pull' = FALSE
            /\ UNCHANGED rf
       ELSE /\ rf' = [rf EXCEPT !.data =
                        AngledData(rf.start_angle, rf.end_angle, rf.len, rf.line_buffer),
                        !.line_buffer = <<>>]
            /\ pc' = "ts"
            /\ UNCHANGED <<status, pull>>
    /\ UNCHANGED <<setup, pos, result, io_error, out, inner, aggregator, seen>>

ReadTsOneByte ==
    /\ pc = "ts"
    /\ Available(1)
    /\ pos' = pos + 1
    /\ rf' = [rf EXCEPT !.ts = read_u8]
    /\ pc' = "crc"
    /\ UNCHANGED <<setup, result, io_error, pull, status, out, inner, aggregator, seen>>

ReadTs ==
    /\ pc = "ts"
    /\ Available(2)
    /\ pos' = pos + 2
    /\ rf' = [rf EXCEPT !.ts = read_u16_le]
    /\ pc' = "crc"
    /\ UNCHANGED <<setup, result, io_error, pull, status, out, inner, aggregator, seen>>

MakeFrame(l, crc) ==
    [header |-> l.header, message_type |-> l.message_type, len |-> l.len,
     speed |-> l.speed, start_angle |-> l.start_angle, data |-> l.data,
     end_angle |-> l.end_angle, ts |-> l.ts, crc |-> crc]

ReadCrc ==
    /\ pc = "crc"
    /\ Available(1)
    /\ pos' = pos + 1
    /\ result' = [kind |-> "Ok", frame |-> MakeFrame(rf, read_u8)]
    /\ pc' = "returned"
    /\ UNCHANGED <<setup, rf, io_error, pull, status, out, inner, aggregator, seen>>

ReadErrorPartial(l) == [kind |-> "Ok", frame |-> MakeFrame(l, 0)]

(* the `?` on a failed read: the error is returned, the locals are dropped *)
ReadError(l) == [kind |-> "Err", frame |-> NoFrame]

(* a read fails: at end of input, or earlier when the transport fails *)
ReadFail ==
    /\ pc \in ReadPcs
    /\ result' = ReadError(rf)
    /\ io_error' = (io_error \/ Available(Need(pc)))
    /\ pc' = "returned"
    /\ UNCHANGED <<setup, pos, rf, pull, status, out, inner, aggregator, seen>>

----------------------------------------------------------------------------
(* The caller of read_frame and the three sequences *)

(* a direct read_frame call hands its Result to the caller, who stops *)
(* calling after the first error                                      *)
ReturnToCaller ==
    /\ mode = "read_frame"
    /\ pc = "returned"
    /\ out' = Append(out, result)
    /\ seen' = IF result.kind = "Ok" THEN Append(seen, result.frame) ELSE seen
    /\ status' = IF result.kind = "Ok" THEN "open" ELSE "ended"
    /\ pull' = FALSE
    /\ pc' = "idle"
    /\ UNCHANGED <<setup, pos, rf, result, io_error, inner, aggregator>>

(* unfold closure: Ok(frame) => Some((frame, d300)), Err(_) => None *)
FrameStreamItem(r) == [some |-> r.kind = "Ok", frame |-> r.frame]

as_frame_stream ==
    /\ mode = "as_frame_stream"
    /\ pc = "returned"
    /\ LET item == FrameStreamItem(result)
       IN  IF item.some
           THEN /\ out' = Append(out, item.frame)
                /\ seen' = Append(seen, item.frame)
                /\ UNCHANGED status
           ELSE /\ status' = "ended"
                /\ UNCHANGED <<out, seen>>
    /\ pull' = FALSE
    /\ pc' = "idle"
    /\ UNCHANGED <<setup, pos, rf, result, io_error, inner, aggregator>>

InnerStreamSkipFirst(frame) == IF frame.data = <<>> THEN <<>> ELSE Tail(frame.data)

(* futures::stream::iter(frame.data): the inner stream of a frame *)
InnerStream(frame) == frame.data

(* flat_map: a frame arrives and its points become the inner stream; a *)
(* frame without points makes flat_map poll the frame stream again     *)
as_scan_line_stream ==
    /\ mode = "as_scan_line_stream"
    /\ pc = "returned"
    /\ LET item == FrameStreamItem(result)
       IN  IF item.some
           THEN /\ inner' = InnerStream(item.frame)
                /\ seen' = Append(seen, item.frame)
                /\ pc' = IF InnerStream(item.frame) = <<>> THEN "header" ELSE "idle"
                /\ rf' = IF InnerStream(item.frame) = <<>> THEN NoLocals ELSE rf
                /\ UNCHANGED <<status, pull>>
           ELSE /\ status' = "ended"
                /\ pull' = FALSE
                /\ pc' = "idle"
                /\ UNCHANGED <<inner, seen, rf>>
    /\ UNCHANGED <<setup, pos, result, io_error, out, aggregator>>

(* flat_map: the inner stream yields the next point of the current frame *)
YieldPoint ==
    /\ mode = "as_scan_line_stream"
    /\ pc = "idle"
    /\ pull
    /\ inner # <<>>
    /\ out' = Append(out, Head(inner))
    /\ inner' = Tail(inner)
    /\ pull' = FALSE
    /\ UNCHANGED <<setup, decoder, status, aggregator, seen>>

SweepNoWrap(start_angle, end_angle) == FSub(end_angle, start_angle)

Sweep(start_angle, end_angle) ==
    IF FLe(start_angle, end_angle)
    THEN FSub(end_angle, start_angle)
    ELSE FAdd(FSub(FromInt(360), start_angle), end_angle)

BatchReadyStrict(covered, n) == ~FLe(covered, FMul(FromInt(n), FromInt(360)))

BatchReady(covered, n) == FGe(covered, FMul(FromInt(n), FromInt(360)))

EndOfFramesFlush(o, buffered) == IF buffered # <<>> THEN Append(o, buffered) ELSE o

(* filter_map: the frame stream has ended, so has the batch sequence *)
EndOfFrames(o, buffered) == o

AppendDataReplacing(buffer, data) == data

(* line_buffer.append(&mut frame.data) *)
AppendData(buffer, data) == buffer \o data

(* filter_map closure of frame_in, run on each frame of the frame stream; *)
(* on None the consumer's poll goes on to the next frame                  *)
frame_in ==
    /\ mode = "frame_in"
    /\ pc = "returned"
    /\ LET item == FrameStreamItem(result)
           covered == FAdd(covered_angle, Sweep(item.frame.start_angle, item.frame.end_angle))
           buffered == AppendData(line_buffer, item.frame.data)
       IN  IF item.some
           THEN /\ covered_angle' = covered
                /\ seen' = Append(seen, item.frame)
                /\ UNCHANGED status
                /\ IF BatchReady(covered, rotations)
                   THEN /\ out' = Append(out, buffered)
                        /\ line_buffer' = <<>>
                        /\ pull' = FALSE
                        /\ pc' = "idle"
                        /\ UNCHANGED rf
                   ELSE /\ line_buffer' = buffered
                        /\ pc' = "header"
                        /\ rf' = NoLocals
                        /\ UNCHANGED <<out, pull>>
           ELSE /\ status' = "ended"
                /\ out' = EndOfFrames(out, line_buffer)
                /\ pull' = FALSE
                /\ pc' = "idle"
                /\ UNCHANGED <<aggregator, seen, rf>>
    /\ UNCHANGED <<setup, pos, result, io_error, inner>>

----------------------------------------------------------------------------

Next ==
    \/ Pull
    \/ ReadHeader
    \/ ReadInfo
    \/ ReadSpeed
    \/ ReadStartAngle
    \/ ReadPoint
    \/ ReadEndAngle
    \/ Interpolate
    \/ ReadTs
    \/ ReadCrc
    \/ ReadFail
    \/ ReturnToCaller
    \/ as_frame_stream
    \/ as_scan_line_stream
    \/ YieldPoint
    \/ frame_in

Spec == Init /\ [][Next]_vars

TypeOK ==
    /\ pos \in 0..Len(input)
    /\ pc \in ReadPcs \cup {"idle", "interpolate", "returned", "panic"}
    /\ status \in {"open", "ended", "panicked"}
    /\ result.kind \in {"None", "Ok", "Err"}

----------------------------------------------------------------------------
(* What the wire says, independently of the decoder's steps *)

(* an angle in hundredths of a degree (exact for raw / 100.0) *)
Hundredths(x) == (x.n * 100) \div x.d

RawSweep(f) ==
    LET s == Hundredths(f.start_angle)
        e == Hundredths(f.end_angle)
    IN  IF s <= e THEN e - s ELSE (36000 - s) + e

RECURSIVE CumSweep(_, _)
CumSweep(fs, j) == IF j = 0 THEN 0 ELSE CumSweep(fs, j - 1) + RawSweep(fs[j])

(* index of the first frame at which the cumulative sweep reaches k turns, or 0 *)
FirstFull(fs, k) ==
    LET js == {j \in 1..Len(fs) : CumSweep(fs, j) >= k * 36000}
    IN  IF js = {} THEN 0 ELSE CHOOSE j \in js : \A i \in js : j <= i

PointsUpTo(fs, j) == Flatten([i \in 1..j |-> fs[i].data])

IsFrameIn == mode = "frame_in"

Emitting == IsFrameIn /\ Len(out') = Len(out) + 1

----------------------------------------------------------------------------
(* C1: every time frame_in emits a batch, the captured line_buffer becomes *)
(* empty and covered_angle becomes exactly 0.0.                            *)
C1_ResetOnEmit ==
    [][Emitting => (line_buffer' = <<>> /\ covered_angle' = FromInt(0))]_vars

(* C2: frame_in yields nothing while the cumulative sweep of the frames so *)
(* far is below rotations * 360, and its first batch comes with the first  *)
(* frame at which that sweep is >= rotations * 360 and holds every point   *)
(* of every frame up to and including that frame, in arrival order.        *)
C2_FirstBatch ==
    IsFrameIn =>
        LET j == FirstFull(seen, rotations)
        IN  IF j = 0
            THEN out = <<>>
            ELSE Len(out) >= 1 /\ out[1] = PointsUpTo(seen, j)

C2_Witness ==
    /\ IsFrameIn
    /\ Len(out) = 1
    /\ Len(seen) >= 2
    /\ FirstFull(seen, rotations) = Len(seen)
    /\ CumSweep(seen, Len(seen)) = rotations * 36000
    /\ Len(out[1]) >= 3

----------------------------------------------------------------------------
(* The frame a sent frame stands for, from its fields before encoding *)

SentLen(w) == w.info % 32

(* point i (from 0) of n lies at start + i * (end - start) / (n - 1);  *)
(* for n = 1 the division by zero leaves no number                     *)
ExpectedAngle(w, i) ==
    IF SentLen(w) >= 2
    THEN Fin(w.start_raw * (SentLen(w) - 1) + i * (w.end_raw - w.start_raw),
             100 * (SentLen(w) - 1))
    ELSE NaN

ExpectedFrame(w) ==
    [header |-> 84, message_type |-> w.info \div 32, len |-> SentLen(w),
     speed |-> w.speed, start_angle |-> Fin(w.start_raw, 100),
     data |-> [i \in 1..Len(w.pts) |->
                  [distance |-> w.pts[i][1], angle |-> ExpectedAngle(w, i - 1),
                   intensity |-> w.pts[i][2]]],
     end_angle |-> Fin(w.end_raw, 100), ts |-> w.ts, crc |-> w.crc]

(* what one read_frame call does on exactly the bytes of w *)
Panics(w) == SentLen(w) = 0 /\ overflow_checks

(* offset in input of the first byte of the j-th sent frame (cut = 0) *)
WireAt(j) == Len(prefix) + Len(WireStream(SubSeq(sent, 1, j - 1)))

(* the first call has returned and nothing has been read since *)
FirstReturned == mode = "read_frame" /\ Len(out) = 1 /\ pc = "idle" /\ ~pull

(* the first read_frame call acts as a call on the bytes of w alone,  *)
(* and leaves the reader `after` bytes into the input                 *)
FirstCallIs(w, after) ==
    /\ Len(out) >= 1 => (~Panics(w) /\ out[1] = [kind |-> "Ok", frame |-> ExpectedFrame(w)])
    /\ (pc = "panic" /\ out = <<>>) => Panics(w)
    /\ FirstReturned => pos = after

----------------------------------------------------------------------------
(* C3: with a prefix of bytes other than 0x54 in front of a valid frame F, *)
(* read_frame returns the Frame it returns on F alone (the same for every  *)
(* prefix, the empty one included) and leaves the reader just after F's    *)
(* checksum byte.                                                          *)
C3_ResyncByPrefix ==
    (mode = "read_frame" /\ cut = 0 /\ sent # <<>> /\ ~io_error) =>
        FirstCallIs(sent[1], Len(prefix) + Len(WireFrame(sent[1])))

C3_Witness ==
    /\ FirstReturned
    /\ Len(prefix) >= 2
    /\ out[1].kind = "Ok"
    /\ out[1].frame.len >= 1
    /\ pos = Len(input)

(* the bytes of the interrupted first frame that the reader still gets *)
Remainder == Drop(WireFrame(sent[1]), cut)

HasSync(bs) == \E i \in 1..Len(bs) : bs[i] = 84

MidFrame == mode = "read_frame" /\ cut > 0 /\ Len(sent) >= 2 /\ ~io_error

(* C4 as stated: started in the middle of a frame, the first Frame that *)
(* read_frame returns is the next true frame of the stream.             *)
C4_MidFrameOriginal ==
    (MidFrame /\ Len(out) >= 1 /\ out[1].kind = "Ok") =>
        out[1].frame = ExpectedFrame(sent[2])

(* C4 amended: started in the middle of a frame whose remaining bytes    *)
(* hold no 0x54, header sync discards them and the first read_frame call *)
(* acts as a call started at the next true frame.                        *)
C4_MidFrameRealign ==
    (MidFrame /\ ~HasSync(Remainder)) =>
        FirstCallIs(sent[2], Len(Remainder) + Len(WireFrame(sent[2])))

C4_Witness ==
    /\ MidFrame
    /\ FirstReturned
    /\ ~HasSync(Remainder)
    /\ Len(Remainder) >= 5
    /\ out[1] = [kind |-> "Ok", frame |-> ExpectedFrame(sent[2])]

----------------------------------------------------------------------------
(* The frames a byte sequence holds completely, read off by offsets *)

ParsedAt(bs, h) ==
    LET l == bs[h + 1] % 32
    IN  [info |-> bs[h + 1],
         speed |-> bs[h + 2] + 256 * bs[h + 3],
         start_raw |-> bs[h + 4] + 256 * bs[h + 5],
         pts |-> [i \in 1..l |-> <<bs[h + 3 + 3 * i] + 256 * bs[h + 4 + 3 * i],
                                   bs[h + 5 + 3 * i]>>],
         end_raw |-> bs[h + 6 + 3 * l] + 256 * bs[h + 7 + 3 * l],
         ts |-> bs[h + 8 + 3 * l] + 256 * bs[h + 9 + 3 * l],
         crc |-> bs[h + 10 + 3 * l]]

RECURSIVE CompleteFrames(_, _)
CompleteFrames(bs, from) ==
    LET hs == {h \in from..Len(bs) : bs[h] = 84}
    IN  IF hs = {} THEN <<>>
        ELSE LET h == CHOOSE x \in hs : \A y \in hs : x <= y
             IN  IF h + 1 > Len(bs) \/ h + 10 + 3 * (bs[h + 1] % 32) > Len(bs)
                 THEN <<>>
                 ELSE <<ExpectedFrame(ParsedAt(bs, h))>>
                          \o CompleteFrames(bs, h + 11 + 3 * (bs[h + 1] % 32))

Delivered == SubSeq(input, 1, pos)

IsSequence == mode \in {"as_frame_stream", "as_scan_line_stream", "frame_in"}

----------------------------------------------------------------------------
(* C5: on a finite input each of the three sequences ends, having taken *)
(* from the frame stream exactly the frames that the bytes delivered    *)
(* before the end of input hold completely, in order; the frame stream  *)
(* hands the consumer these frames and never an error or a partial one. *)
C5_Termination ==
    IsSequence =>
        /\ status # "panicked"
        /\ status = "ended" => seen = CompleteFrames(Delivered, 1)
        /\ mode = "as_frame_stream" => out = seen
        /\ \A j \in 1..Len(seen) : seen[j].header = 84 /\ Len(seen[j].data) = seen[j].len

(* C6: a read that fails makes read_frame return the error and no Frame; *)
(* a Frame is returned only by the read of the checksum byte, the last   *)
(* of the 11 + 3 * len bytes that start at the frame's sync byte.        *)
C6_NoPartialFrame ==
    [][(pc \in ReadPcs /\ pc' = "returned") =>
          IF pos' = pos
          THEN result' = [kind |-> "Err", frame |-> NoFrame]
          ELSE LET f == result'.frame
                   n == 11 + 3 * f.len
               IN  /\ result'.kind = "Ok"
                   /\ pc = "crc"
                   /\ pos' >= n
                   /\ input[pos' - n + 1] = 84
                   /\ f.header = 84
                   /\ Len(f.data) = f.len]_vars

C6_Witness ==
    /\ pc = "returned"
    /\ result.kind = "Err"
    /\ rf.len >= 2
    /\ Len(rf.line_buffer) = 1
    /\ pos > 0

(* C7: when the frame stream ends, frame_in's sequence ends without *)
(* emitting its pending points; a batch is emitted only in response *)
(* to an incoming frame.                                             *)
C7_TrailingDropped ==
    [][IsFrameIn =>
          /\ (status = "open" /\ status' = "ended") => out' = out
          /\ out' # out => (result.kind = "Ok" /\ seen' = Append(seen, result.frame)
                            /\ status' = "open")]_vars

C7_Witness ==
    /\ IsFrameIn
    /\ status = "ended"
    /\ line_buffer # <<>>
    /\ Len(seen) >= 2
    /\ CumSweep(seen, Len(seen)) < rotations * 36000
    /\ out = <<>>

(* C8: every complete frame of 11 + 3 * len bytes that starts with 0x54 *)
(* is decoded into a Frame with header 0x54, that len and exactly len   *)
(* points, whatever its info byte; only a failed read makes a decode    *)
(* fail, and no decode reads more than 31 point tuples.                 *)
C8_DecodeTotal ==
    /\ Len(rf.line_buffer) <= 31
    /\ (mode = "read_frame" /\ cut = 0 /\ sent # <<>> /\ ~io_error) =>
          /\ pc # "panic"
          /\ Len(out) >= 1 =>
                /\ out[1].kind = "Ok"
                /\ out[1].frame.header = 84
                /\ out[1].frame.len = SentLen(sent[1])
                /\ Len(out[1].frame.data) = SentLen(sent[1])

(* C9: the single point of a frame with len = 1 gets a well-defined *)
(* angle, equal to start_angle.                                     *)
C9_SinglePointAngle ==
    \A j \in 1..Len(seen) :
        seen[j].len = 1 =>
            /\ seen[j].data[1].angle.k = "fin"
            /\ seen[j].data[1].angle = seen[j].start_angle

(* C10: in a decoded frame with len >= 2, point i (from 0, in wire order) *)
(* has angle start_angle + i * (end_angle - start_angle) / (len - 1),     *)
(* where start_angle and end_angle are the raw wire values / 100; the     *)
(* first point's angle is start_angle and its distance is the             *)
(* little-endian u16 of the first point tuple.                            *)
C10_Interpolation ==
    cut = 0 =>
        \A j \in 1..Len(seen) :
            LET f == seen[j]
                n == f.len
                at == WireAt(j)
                s == input[at + 5] + 256 * input[at + 6]
                e == input[at + 7 + 3 * n] + 256 * input[at + 8 + 3 * n]
            IN  n >= 2 =>
                  /\ f.start_angle.k = "fin" /\ f.start_angle.n * 100 = f.start_angle.d * s
                  /\ f.end_angle.k = "fin" /\ f.end_angle.n * 100 = f.end_angle.d * e
                  /\ \A i \in 0..(n - 1) :
                        LET a == f.data[i + 1].angle
                        IN  /\ a.k = "fin"
                            /\ a.n * (100 * (n - 1)) = a.d * (s * (n - 1) + i * (e - s))
                  /\ f.data[1].angle = f.start_angle
                  /\ f.data[1].distance = input[at + 7] + 256 * input[at + 8]

C10_Witness ==
    /\ cut = 0
    /\ Len(seen) >= 1
    /\ seen[1].len >= 2
    /\ seen[1].data[1].angle = Fin(1, 10)
    /\ seen[1].data[1].distance = 2803
    /\ seen[1].data[2].angle = Fin(350, 1)

----------------------------------------------------------------------------
(* C11: the points handed out by as_scan_line_stream, followed by those *)
(* flat_map still holds, are the points of the decoded frames in frame  *)
(* order and intra-frame order; none is dropped, duplicated or          *)
(* reordered, and a frame without points contributes nothing.           *)
C11_PointStreamFlattens ==
    mode = "as_scan_line_stream" =>
        /\ out \o inner = PointsUpTo(seen, Len(seen))
        /\ (pc = "idle" /\ ~pull /\ status = "open" /\ seen # <<>>) => out # <<>>

C11_Witness ==
    /\ mode = "as_scan_line_stream"
    /\ Len(seen) >= 2
    /\ Len(out) >= 3
    /\ seen[1].len >= 2
    /\ out[3] = seen[2].data[1]
    /\ inner = <<>>

----------------------------------------------------------------------------
(* frame_in has run its closure on a frame of the frame stream *)
FrameProcessed == IsFrameIn /\ Len(seen') = Len(seen) + 1

(* what the closure added to covered_angle, in hundredths of a degree *)
SweepAdded == Hundredths(covered_angle') - Hundredths(covered_angle)

(* C12 as stated: the sweep added for a frame is end - start when        *)
(* end >= start and (360 - start) + end otherwise, and it is never       *)
(* negative for angles decoded from the wire, so covered_angle never     *)
(* decreases.                                                            *)
C12_SweepOriginal ==
    [][FrameProcessed =>
          /\ SweepAdded = RawSweep(seen'[Len(seen')])
          /\ SweepAdded >= 0]_vars

(* C12 amended: the same sweep; it is not negative whenever the frame's *)
(* start_angle is at most 360 degrees.                                  *)
C12_Sweep ==
    [][FrameProcessed =>
          LET f == seen'[Len(seen')]
          IN  /\ SweepAdded = RawSweep(f)
              /\ Hundredths(f.start_angle) <= 36000 => SweepAdded >= 0]_vars

C12_Witness ==
    /\ IsFrameIn
    /\ Len(seen) = 1
    /\ seen[1].start_angle = FromInt(350)
    /\ seen[1].end_angle = FromInt(10)
    /\ covered_angle = FromInt(20)

----------------------------------------------------------------------------
(* C13: bytes are read only while a pull of the consumer is in progress; *)
(* handing over an item ends the pull; the frame stream reads no byte of *)
(* the next frame before every decoded frame has been handed over and    *)
(* pulled past, and the point stream reads none before every point of    *)
(* the decoded frames has been handed over.                              *)
C13_BackPressure ==
    [][/\ pos' # pos => (pull /\ pull' /\ status = "open")
       /\ (pos' # pos /\ mode = "as_frame_stream") => out = seen
       /\ (pos' # pos /\ mode = "as_scan_line_stream") =>
             (inner = <<>> /\ out = PointsUpTo(seen, Len(seen)))
       /\ Len(out') > Len(out) => (pull /\ ~pull' /\ pos' = pos)]_vars

C13_Witness ==
    /\ mode = "as_scan_line_stream"
    /\ ~pull
    /\ inner # <<>>
    /\ Len(out) >= 1
    /\ Len(seen) = 1
    /\ pos < Len(input)

----------------------------------------------------------------------------
(* number of leading bytes of bs taken up by its complete frames and the *)
(* bytes discarded in front of each of them                              *)
RECURSIVE FramesEnd(_, _)
FramesEnd(bs, from) ==
    LET hs == {h \in from..Len(bs) : bs[h] = 84}
    IN  IF hs = {} THEN from - 1
        ELSE LET h == CHOOSE x \in hs : \A y \in hs : x <= y
             IN  IF h + 1 > Len(bs) \/ h + 10 + 3 * (bs[h + 1] % 32) > Len(bs)
                 THEN from - 1
                 ELSE FramesEnd(bs, h + 11 + 3 * (bs[h + 1] % 32))

(* C14: each successful read_frame consumes the bytes discarded before  *)
(* the sync byte plus exactly 11 + 3 * len bytes; on valid back-to-back *)
(* frames the decoded frames are the sent frames one for one, each      *)
(* decode starting right after the previous frame's checksum byte.      *)
C14_ExactConsumption ==
    /\ (mode \in {"read_frame", "as_frame_stream"} /\ pc = "idle" /\ status = "open"
            /\ seen # <<>>) =>
          /\ seen = CompleteFrames(Delivered, 1)
          /\ pos = FramesEnd(Delivered, 1)
          /\ cut = 0 =>
                /\ Len(seen) <= Len(sent)
                /\ \A j \in 1..Len(seen) : seen[j] = ExpectedFrame(sent[j])
                /\ pos = WireAt(Len(seen) + 1)
    /\ (mode = "as_frame_stream" /\ cut = 0 /\ status = "ended" /\ ~io_error) =>
          Len(out) = Len(sent)

C14_Witness ==
    /\ mode = "as_frame_stream"
    /\ cut = 0
    /\ status = "ended"
    /\ ~io_error
    /\ Len(out) >= 3
    /\ out[2].len # out[3].len
    /\ pos = Len(input)

----------------------------------------------------------------------------
(* C15: a decoded frame has message_type = b div 32 and len = b mod 32   *)
(* for its info byte b; speed, the raw start and end angles, every       *)
(* distance and the timestamp are low byte + 256 * high byte of their    *)
(* two wire bytes; the checksum byte is stored as it is, whatever it is. *)
C15_FieldsFromWire ==
    cut = 0 =>
        \A j \in 1..Len(seen) :
            LET f == seen[j]
                at == WireAt(j)
                b == input[at + 2]
                n == b % 32
            IN  /\ f.header = input[at + 1]
                /\ f.message_type = b \div 32 /\ f.message_type \in 0..7
                /\ f.len = n /\ f.len \in 0..31
                /\ f.message_type * 32 + f.len = b
                /\ f.speed = input[at + 3] + 256 * input[at + 4]
                /\ f.start_angle = Fin(input[at + 5] + 256 * input[at + 6], 100)
                /\ Len(f.data) = n
                /\ \A i \in 1..n :
                      /\ f.data[i].distance = input[at + 4 + 3 * i] + 256 * input[at + 5 + 3 * i]
                      /\ f.data[i].intensity = input[at + 6 + 3 * i]
                /\ f.end_angle = Fin(input[at + 7 + 3 * n] + 256 * input[at + 8 + 3 * n], 100)
                /\ f.ts = input[at + 9 + 3 * n] + 256 * input[at + 10 + 3 * n]
                /\ f.crc = input[at + 11 + 3 * n]

C15_Witness ==
    /\ cut = 0
    /\ Len(seen) = 1
    /\ seen[1].message_type = 7
    /\ seen[1].len = 31
    /\ seen[1].ts = 65535
    /\ seen[1].crc = 255
    /\ seen[1].data[2].distance = 596

----------------------------------------------------------------------------
(* C16: on a finite input every read_frame call ends with a Frame or with *)
(* a transport error, and each sequence ends: no call and no sequence     *)
(* stops in any other way.                                                *)
C16_Terminates ==
    /\ pc # "panic"
    /\ status # "panicked"

----------------------------------------------------------------------------
(* the batches out[1..i] hold exactly the points of the first b frames *)
EndsAtFrame(i, b) == Flatten(SubSeq(out, 1, i)) = PointsUpTo(seen, b)

(* C17: the batches emitted so far followed by the pending buffer are the *)
(* points of all frames consumed so far, in order; every batch ends at a  *)
(* frame boundary; a frame brings at most one batch, and that batch ends  *)
(* with the points of the frame that triggered it.                        *)
C17_BatchesPartition ==
    [][IsFrameIn =>
          /\ Flatten(out') \o line_buffer' = PointsUpTo(seen', Len(seen'))
          /\ \A i \in 1..Len(out') : \E b \in 1..Len(seen') : EndsAtFrame(i, b)'
          /\ Len(out') <= Len(out) + 1
          /\ Len(out') = Len(out) + 1 =>
                /\ Len(seen') = Len(seen) + 1
                /\ SubSeq(out', 1, Len(out)) = out
                /\ LET batch == out'[Len(out')]
                       data == seen'[Len(seen')].data
                   IN  /\ Len(batch) >= Len(data)
                       /\ SubSeq(batch, Len(batch) - Len(data) + 1, Len(batch)) = data
                       /\ EndsAtFrame(Len(out), Len(seen))']_vars

C17_Witness ==
    /\ IsFrameIn
    /\ Len(out) >= 2
    /\ Len(out[1]) > Len(seen[1].data)
    /\ Len(seen) >= 3
    /\ line_buffer = <<>>

----------------------------------------------------------------------------
InRange(f) ==
    /\ Hundredths(f.start_angle) \in 0..35999
    /\ Hundredths(f.end_angle) \in 0..35999

(* angle a lies on the arc that runs from the frame's start_angle forward *)
(* by the frame's sweep (angles taken modulo 360 degrees)                 *)
OnArc(a, f) ==
    /\ a.k = "fin"
    /\ (a.n * 100 - Hundredths(f.start_angle) * a.d) % (36000 * a.d) <= RawSweep(f) * a.d

(* C18: in a decoded frame with len >= 2 and both angles in [0, 360), *)
(* every point's angle lies on the arc from start_angle forward by    *)
(* the frame's sweep, also when the frame crosses 0/360, and the last *)
(* point's angle is end_angle.                                        *)
C18_AnglesOnArc ==
    \A j \in 1..Len(seen) :
        (seen[j].len >= 2 /\ InRange(seen[j])) =>
            /\ \A i \in 1..seen[j].len : OnArc(seen[j].data[i].angle, seen[j])
            /\ seen[j].data[seen[j].len].angle = seen[j].end_angle

====
